---- MODULE Spec2Model ----
(***************************************************************************)
(* Voice call coordinator (VoiceSupport.jsx), customer chat page           *)
(* (Chat.jsx), chat store (stores/chatStore) and embeddable widget script  *)
(* of custoPilot, as a state machine.                                      *)
(*                                                                         *)
(* React semantics that the handlers rely on are modelled explicitly:      *)
(*  - a callback closes over the isCallActive / voiceState / props of the  *)
(*    render that created it (a "snapshot"), refs (recognition.current,    *)
(*    synthesis.current) are read when the callback runs;                  *)
(*  - after a handler changed isCallActive or voiceState the component     *)
(*    re-renders and the recognition effect (deps [isCallActive,           *)
(*    voiceState]) runs its cleanup and its body again;                    *)
(*  - state setters of an unmounted instance are no-ops, its refs and the  *)
(*    window-global speech synthesis stay reachable from late callbacks.   *)
(* Browser speech engines are the environment: a recognizer that was       *)
(* stopped may still deliver one final result and then ends; an utterance  *)
(* ends with exactly one of its 'end' / 'error' events, also when it was   *)
(* cancelled.                                                              *)
(*                                                                         *)
(* The overlay is opened again only when nothing of the previous instance  *)
(* is outstanding, so every pending callback belongs to the instance that  *)
(* is mounted or was mounted last.  The transcript shown in the overlay    *)
(* and the text the user types or says are not followed.  A mutation of    *)
(* @tanstack/react-query runs the onSuccess of the page's latest render.   *)
(***************************************************************************)
EXTENDS Integers, Sequences, FiniteSets, Bags, TLC

\* ---------------------------------------------------------------- bounds
MaxVoiceTurns == 1
MaxTypedTurns == 2
MaxChatTyped == 1
MaxInFlight == 2
MaxPending == 1
MaxDuration == 1
MaxUuids == 2
MaxClock == 1
MaxDirect == 1
MaxWidgetSends == 2
MaxAuthCalls == 1
MaxTestConvs == 2
MaxTestSends == 2

\* ------------------------------------------------------------- constants
IDLE == "idle"
LISTENING == "listening"
PROCESSING == "processing"
SPEAKING == "speaking"
VoiceState == {IDLE, LISTENING, PROCESSING, SPEAKING}

Null == "null"
ConvIds == {"c1", "c2"}
Replies == {"", "r1"}
Scores == {Null, "0.9"}

ErrUnsupported == "Speech recognition is not supported in your browser."
ErrRecognition == "Recognition error"
ErrProcess == "Failed to process your request"

VARIABLES
    \* VoiceSupport component state (useState) of the mounted instance
    voiceState, isCallActive, callDuration, vsError,
    \* VoiceSupport refs and browser objects
    recCur,         \* recognition.current
    oldRecs,        \* bag: recognizers stopped by an effect cleanup, end event pending
    utterActive,    \* utterance window.speechSynthesis is speaking / has queued
    utterCancelled, \* bag: utterances whose terminal event is still to be delivered
    callTimer,      \* the interval of callTimerRef is scheduled
    timer,          \* the greeting setTimeout of startCall is pending
    sends,          \* bag: onSendMessage calls in flight
    hasRecognition, \* 'SpeechRecognition' in window
    \* Chat page state
    showVoiceSupport, isPending, pendingConv, isError, isSpeaking, voiceEnabled,
    \* chat store
    messages, conversationId, isLoading, error,
    sessionId,      \* the store's sessionId
    persisted,      \* localStorage 'chat_session_id'
    uuids,          \* how many values crypto.randomUUID() has returned
    now,            \* Date.now()
    clearedId,      \* history: the id persisted when clearChat ran last
    isRecording,    \* Chat.jsx: the page's microphone button is on
    pageRec,        \* Chat.jsx: status of the page's own recognizer
    widgetInit,     \* widget: where init() is
    styleEls,       \* widget: <style> elements it appended to document.head
    container,      \* widget: #custopilot-widget-container is in document.body
    listeners,      \* widget: attachEventListeners() has run
    widgetIsOpen, widgetIsLoading, widgetMessages, widgetConversationId,
    typingEls,      \* widget: #custopilot-typing-indicator elements
    widgetInput,    \* widget: value of #custopilot-input
    inputDisabled,  \* widget: input.disabled and sendBtn.disabled
    widgetPosts,    \* widget: POSTs to /api/chat/widget-message in flight
    user, token, isAuthenticated,   \* auth store (persisted as 'auth-storage')
    authIsLoading, authError,       \* auth store: isLoading, error
    lsToken,        \* localStorage 'token'
    authCalls,      \* requests of the auth store in flight
    navigating,     \* window.location.href was assigned, the page is about to load
    selectedChatbot,                \* TestChatbot page
    testMessages, testInput, testLoading, testError,
    testConv,       \* TestChatbot: how many conversations were started (sessionId)
    testSends,      \* TestChatbot: sends in flight
    location        \* the router's current path

voiceVars == <<voiceState, isCallActive, callDuration, vsError>>
speechVars == <<recCur, oldRecs, utterActive, utterCancelled, callTimer, timer, sends>>
pageVars == <<showVoiceSupport, isPending, pendingConv, isError, isSpeaking, voiceEnabled>>
storeVars == <<messages, conversationId, isLoading, error>>
sessionVars == <<sessionId, persisted, uuids, now, clearedId>>
recordVars == <<isRecording, pageRec>>
testVars ==
    <<selectedChatbot, testMessages, testInput, testLoading, testError, testConv,
      testSends>>
authVars ==
    <<user, token, isAuthenticated, authIsLoading, authError, lsToken, authCalls,
      navigating>>
widgetVars ==
    <<widgetInit, styleEls, container, listeners, widgetIsOpen, widgetIsLoading,
      widgetMessages, widgetConversationId, typingEls, widgetInput, inputDisabled,
      widgetPosts>>
vars == <<voiceVars, speechVars, pageVars, storeVars, sessionVars, hasRecognition,
          recordVars, widgetVars, authVars, testVars, location>>

\* ------------------------------------------------------ speech recognizer
\* st: the recognizer's status; a, l, unset: what its handlers closed over
\* (isCallActive, voiceState === LISTENING, !conversationId of the render that
\* created it); res: a stopped recognizer may still return one final result
NoRec == [st |-> "none", a |-> FALSE, l |-> FALSE, unset |-> TRUE, res |-> FALSE]

\* new SpeechRecognition() in the effect body; a, v, conv: the render's snapshot
NewRec(a, v, conv) ==
    IF hasRecognition
    THEN [st |-> "idle", a |-> a, l |-> (v = LISTENING), unset |-> (conv = Null),
          res |-> FALSE]
    ELSE NoRec

\* recognition.stop(): a running recognizer stops and may return one result
\* from the audio it has; on any other recognizer it does nothing
StopRec(r) ==
    IF r.st = "running" THEN [r EXCEPT !.st = "stopping", !.res = TRUE] ELSE r

\* recognition.start() throws InvalidStateError unless the recognizer is idle
CanStart(r) == r.st = "idle"

\* startListening's recognition.current.start(), inside its try
StartRec(r) == IF CanStart(r) THEN [r EXCEPT !.st = "running"] ELSE r

\* startListening's setVoiceState(LISTENING), skipped when start() threw or
\* there is no recognizer
ListenState(r, v) == IF CanStart(r) THEN LISTENING ELSE v

OldKey(r) == [a |-> r.a, l |-> r.l, unset |-> r.unset, res |-> r.res]

One(x) == SetToBag({x})

\* ------------------------------------------------------ speech synthesis
\* owner: the component whose speak() made the utterance; a: the isCallActive
\* its onend closed over; greeting: startCall's greeting; started: its start
\* event was delivered; ended: endCall's synthesis.cancel() removed it while
\* it was being spoken; muted: the mute-output button's cancel() removed it
NoUtter == [owner |-> "none", a |-> FALSE, greeting |-> FALSE, started |-> FALSE,
            ended |-> FALSE, muted |-> FALSE]

\* the utterance of speakResponse; a: the isCallActive its onend closed over
VoiceUtter(a, g) ==
    [owner |-> "voice", a |-> a, greeting |-> g, started |-> FALSE, ended |-> FALSE,
     muted |-> FALSE]

\* the utterance of speakText
ChatUtter ==
    [owner |-> "chat", a |-> FALSE, greeting |-> FALSE, started |-> FALSE, ended |-> FALSE,
     muted |-> FALSE]

\* synthesis.cancel(): the utterance in the queue is removed; its terminal
\* event is delivered later
CancelBag(u, c) ==
    IF u.owner = "none" THEN c ELSE c (+) One([u EXCEPT !.started = FALSE])

\* the model's bounds on what is in flight
Cap ==
    /\ BagCardinality(oldRecs) <= MaxPending
    /\ BagCardinality(utterCancelled) <= MaxPending
    /\ BagCardinality(sends) <= MaxInFlight

\* ------------------------------------------------------------- chat store
\* crypto.randomUUID(): the k-th value it returns; the values are distinct and
\* no Date.now() string is one of them
Uuid(k) == "uuid-" \o ToString(k)

\* Date.now().toString() + sfx
NowId(sfx) == ToString(now) \o sfx

\* the id the page gives a message: Date.now().toString() on the typed path,
\* Date.now().toString() + '-user' / '-assistant' in handleVoiceSendMessage
PageId(role, via) == NowId(IF via = "voice" THEN "-" \o role ELSE "")

\* the message object the page passes to addMessage; via: the path it came by
\* ("typed", "voice"); the page sets created_at and no timestamp
Msg(role, via, content, conf) ==
    [role |-> role, via |-> via, content |-> content, conf |-> conf,
     id |-> PageId(role, via), timestamp |-> Null]

\* a message object without an id, as a direct caller of the store may pass
NoIdMsg == [role |-> "user", via |-> "direct", content |-> "q", conf |-> Null,
            id |-> Null, timestamp |-> Null]

\* addMessage: the message is appended to the log with
\* id: message.id || crypto.randomUUID() and
\* timestamp: message.timestamp || new Date().toISOString().
\* addMessage_Twice puts the message in the log twice.
addMessage_Twice(log, m) == Append(Append(log, m), m)

addMessage(log, m) ==
    Append(log, [m EXCEPT !.id = IF m.id = Null THEN Uuid(uuids + 1) ELSE m.id,
                          !.timestamp = IF m.timestamp = Null THEN ToString(now)
                                        ELSE m.timestamp])

\* the messages of one role and path in the log
Count(role, via) == Cardinality({n \in 1..Len(messages) :
                                    messages[n].role = role /\ messages[n].via = via})

\* ------------------------------------------------------------------ React
\* The end of a VoiceSupport handler: the queued state updates (a1, v1, e1)
\* are applied when the instance is mounted; when isCallActive or voiceState
\* changed, the recognition effect's cleanup runs
\* (recognition.current.stop(), synthesis.current.cancel(),
\* clearInterval(callTimerRef.current)), then its body (a new recognizer with
\* the new render's closures), then the call timer effect when isCallActive
\* changed.  r1, o1, u1, c1 are the recognizer, the stopped recognizers and
\* the synthesis queue as the handler left them; conv1 is the store's
\* conversationId the new render sees.
Commit(a1, v1, e1, r1, o1, u1, c1, conv1) ==
    LET live == showVoiceSupport
        a2 == IF live THEN a1 ELSE isCallActive
        v2 == IF live THEN v1 ELSE voiceState
        changed == a2 # isCallActive \/ v2 # voiceState
        rs == StopRec(r1)
    IN  /\ isCallActive' = a2
        /\ voiceState' = v2
        /\ vsError' = IF changed /\ ~hasRecognition THEN ErrUnsupported
                      ELSE IF live THEN e1 ELSE vsError
        /\ IF changed
           THEN /\ recCur' = NewRec(a2, v2, conv1)
                /\ oldRecs' = IF rs.st = "stopping" THEN o1 (+) One(OldKey(rs)) ELSE o1
                /\ utterActive' = NoUtter
                /\ utterCancelled' = CancelBag(u1, c1)
                /\ callTimer' = IF a2 # isCallActive THEN a2 ELSE FALSE
                /\ callDuration' = IF a2 # isCallActive /\ ~a2 THEN 0 ELSE callDuration
           ELSE /\ recCur' = r1
                /\ oldRecs' = o1
                /\ utterActive' = u1
                /\ utterCancelled' = c1
                /\ UNCHANGED <<callTimer, callDuration>>

\* The instance is removed from the page (onClose -> setShowVoiceSupport(false)):
\* both effects' cleanups run, the component state is discarded; the ref keeps
\* the last recognizer for the callbacks that are still to come.
Unmount(r1, u1, c1) ==
    /\ showVoiceSupport' = FALSE
    /\ isCallActive' = FALSE
    /\ voiceState' = IDLE
    /\ vsError' = Null
    /\ callDuration' = 0
    /\ callTimer' = FALSE
    /\ recCur' = StopRec(r1)
    /\ utterActive' = NoUtter
    /\ utterCancelled' = CancelBag(u1, c1)

\* nothing of the previous overlay instance is outstanding
Quiescent ==
    /\ ~timer
    /\ oldRecs = EmptyBag
    /\ sends = EmptyBag
    /\ recCur.st \in {"none", "idle"}
    /\ utterActive.owner # "voice"
    /\ \A u \in BagToSet(utterCancelled) : u.owner # "voice"

\* ------------------------------------------------------------------- Init
Init ==
    /\ voiceState = IDLE /\ isCallActive = FALSE
    /\ callDuration = 0 /\ vsError = Null
    /\ recCur = NoRec
    /\ oldRecs = EmptyBag /\ utterActive = NoUtter /\ utterCancelled = EmptyBag
    /\ callTimer = FALSE /\ timer = FALSE /\ sends = EmptyBag
    /\ hasRecognition \in BOOLEAN
    /\ showVoiceSupport = FALSE
    /\ isPending = FALSE /\ pendingConv = Null /\ isError = FALSE
    /\ isSpeaking = FALSE /\ voiceEnabled = FALSE
    /\ messages = <<>> /\ conversationId = Null /\ isLoading = FALSE /\ error = Null
    /\ sessionId = Null /\ persisted = Null /\ uuids = 0 /\ now = 0
    /\ clearedId = Null
    /\ isRecording = FALSE /\ pageRec = (IF hasRecognition THEN "idle" ELSE "none")
    /\ widgetInit = "start" /\ styleEls = 0 /\ container = FALSE /\ listeners = FALSE
    /\ widgetIsOpen = FALSE /\ widgetIsLoading = FALSE /\ widgetMessages = <<>>
    /\ widgetConversationId = Null /\ typingEls = 0 /\ widgetInput = ""
    /\ inputDisabled = FALSE /\ widgetPosts = 0
    /\ user = Null /\ token = Null /\ isAuthenticated = FALSE
    /\ authIsLoading = FALSE /\ authError = Null
    /\ lsToken = Null /\ authCalls = EmptyBag /\ navigating = FALSE
    /\ selectedChatbot = Null /\ testMessages = <<>> /\ testInput = ""
    /\ testLoading = FALSE /\ testError = Null /\ testConv = 0
    /\ testSends = EmptyBag
    /\ location = "/"

\* ------------------------------------------------- VoiceSupport: the page
\* Chat.jsx: onClick={() => setShowVoiceSupport(true)}; the component mounts
\* with its initial state and both effects run for the first time
OpenVoiceSupport ==
    /\ ~showVoiceSupport /\ Quiescent
    /\ showVoiceSupport' = TRUE
    /\ voiceState' = IDLE /\ isCallActive' = FALSE
    /\ callDuration' = 0 /\ callTimer' = FALSE
    /\ vsError' = IF hasRecognition THEN Null ELSE ErrUnsupported
    /\ recCur' = NewRec(FALSE, IDLE, conversationId)
    /\ UNCHANGED <<oldRecs, utterActive, utterCancelled, timer, sends, hasRecognition, location, testVars, authVars, recordVars, widgetVars, sessionVars,
                   isPending, pendingConv, isError, isSpeaking, voiceEnabled, storeVars>>

\* the close button, rendered when onClose && !isCallActive
CloseVoiceSupport ==
    /\ showVoiceSupport /\ ~isCallActive
    /\ Unmount(recCur, utterActive, utterCancelled)
    /\ UNCHANGED <<oldRecs, timer, sends, hasRecognition, location, testVars, authVars, recordVars, widgetVars, sessionVars, isPending, pendingConv,
                   isError, isSpeaking, voiceEnabled, storeVars>>
    /\ Cap'

\* ---------------------------------------------- VoiceSupport: user controls
startCall ==
    /\ showVoiceSupport /\ ~isCallActive
    /\ timer' = TRUE
    /\ Commit(TRUE, voiceState, Null, recCur, oldRecs,
              utterActive, utterCancelled, conversationId)
    /\ UNCHANGED <<sends, hasRecognition, location, testVars, authVars, recordVars, widgetVars, sessionVars, pageVars, storeVars>>
    /\ Cap'

\* endCall; onClose is Chat.jsx's () => setShowVoiceSupport(false).
\* endCall_NoClose is endCall without its onClose().
endCall_NoClose ==
    /\ showVoiceSupport /\ isCallActive
    /\ Commit(FALSE, IDLE, vsError, StopRec(recCur), oldRecs, NoUtter,
              CancelBag([utterActive EXCEPT !.ended = (voiceState = SPEAKING)],
                        utterCancelled), conversationId)
    /\ UNCHANGED <<timer, sends, hasRecognition, location, testVars, authVars, recordVars, widgetVars, sessionVars,
                   pageVars, storeVars>>
    /\ Cap'

endCall ==
    /\ showVoiceSupport /\ isCallActive
    /\ Unmount(StopRec(recCur), NoUtter,
               CancelBag([utterActive EXCEPT !.ended = (voiceState = SPEAKING)],
                         utterCancelled))
    /\ UNCHANGED <<oldRecs, timer, sends, hasRecognition, location, testVars, authVars, recordVars, widgetVars, sessionVars, isPending, pendingConv,
                   isError, isSpeaking, voiceEnabled, storeVars>>
    /\ Cap'

\* toggleMute; its button is rendered while the call is active
toggleMute ==
    /\ showVoiceSupport /\ isCallActive
    /\ LET r1 == IF voiceState = LISTENING THEN StopRec(recCur)
                 ELSE IF voiceState = IDLE THEN StartRec(recCur) ELSE recCur
           v1 == IF voiceState = LISTENING THEN IDLE
                 ELSE IF voiceState = IDLE THEN ListenState(recCur, voiceState)
                 ELSE voiceState
       IN  /\ Commit(isCallActive, v1, vsError, r1, oldRecs,
                     utterActive, utterCancelled, conversationId)
    /\ UNCHANGED <<timer, sends, hasRecognition, location, testVars, authVars, recordVars, widgetVars, sessionVars, pageVars, storeVars>>
    /\ Cap'

\* onClick={() => synthesis.current?.cancel()}
muteOutput ==
    /\ showVoiceSupport /\ isCallActive
    /\ utterActive' = NoUtter
    /\ utterCancelled' = CancelBag([utterActive EXCEPT !.muted = TRUE], utterCancelled)
    /\ UNCHANGED <<voiceVars, recCur, oldRecs, callTimer, timer, sends, hasRecognition, location, testVars, authVars, recordVars, widgetVars, sessionVars,
                   pageVars, storeVars>>
    /\ Cap'

\* setInterval(() => setCallDuration(prev => prev + 1), 1000)
callTimerTick ==
    /\ callTimer /\ callDuration < MaxDuration
    /\ callDuration' = callDuration + 1
    /\ UNCHANGED <<voiceState, isCallActive, vsError, speechVars,
                   hasRecognition, location, testVars, authVars, recordVars, widgetVars, sessionVars, pageVars, storeVars>>

\* ------------------------------------------------------- speech synthesis
\* speakResponse(text) of a render whose isCallActive was a: the state update,
\* synthesis.cancel(), the new utterance with its two callbacks,
\* synthesis.speak(), and the re-render that follows
speakResponse(a, g, e1, conv1) ==
    Commit(isCallActive, SPEAKING, e1, recCur, oldRecs,
           VoiceUtter(a, g), CancelBag(utterActive, utterCancelled), conv1)

\* the setTimeout callback of startCall: speakResponse of the render in which
\* startCall was clicked (isCallActive was false there)
greetingTimer ==
    /\ timer
    /\ timer' = FALSE
    /\ speakResponse(FALSE, TRUE, vsError, conversationId)
    /\ UNCHANGED <<sends, hasRecognition, location, testVars, authVars, recordVars, widgetVars, sessionVars, pageVars, storeVars>>
    /\ Cap'

\* the utterances whose terminal event the browser still has to deliver:
\* the one in the queue ("active") and the cancelled ones
Sources == {"active", "cancelled"}

IsUtterance(u, src) ==
    IF src = "active" THEN u = utterActive /\ u # NoUtter ELSE BagIn(u, utterCancelled)

Utterances == (IF utterActive = NoUtter THEN {} ELSE {utterActive}) \cup BagToSet(utterCancelled)

\* an utterance leaves the synthesis queue when its terminal event fires
AfterActive(src) == IF src = "active" THEN NoUtter ELSE utterActive

AfterCancelled(u, src) == IF src = "active" THEN utterCancelled ELSE utterCancelled (-) One(u)

\* utterance.onend of speakResponse
utteranceOnEnd(u, src) ==
    /\ IsUtterance(u, src) /\ u.owner = "voice"
    /\ Commit(isCallActive, IF u.a THEN LISTENING ELSE voiceState, vsError,
              IF u.a THEN StartRec(recCur) ELSE recCur, oldRecs,
              AfterActive(src), AfterCancelled(u, src), conversationId)
    /\ UNCHANGED <<timer, sends, hasRecognition, location, testVars, authVars, recordVars, widgetVars, sessionVars, pageVars, storeVars>>
    /\ Cap'

\* utterance.onerror of speakResponse
utteranceOnError(u, src) ==
    /\ IsUtterance(u, src) /\ u.owner = "voice"
    /\ Commit(isCallActive, LISTENING, vsError, StartRec(recCur), oldRecs,
              AfterActive(src), AfterCancelled(u, src), conversationId)
    /\ UNCHANGED <<timer, sends, hasRecognition, location, testVars, authVars, recordVars, widgetVars, sessionVars, pageVars, storeVars>>
    /\ Cap'

\* ------------------------------------------------------ speech recognition
\* handleUserSpeech(text) of the render that created the recognizer
\* (isCallActive a, onSendMessage closing over a conversationId that was
\* unset or not), up to its await; r0, o0: the recognizers after the result
\* was delivered.  handleUserSpeech_NoProcessing is the handler without its
\* setVoiceState(VoiceState.PROCESSING).
handleUserSpeech_NoProcessing(a, unset, r0, o0) ==
    /\ sends' = sends (+) One([a |-> a, unset |-> unset])
    /\ Commit(isCallActive, voiceState, vsError, StopRec(r0), o0,
              utterActive, utterCancelled, conversationId)
    /\ UNCHANGED <<timer, hasRecognition, location, testVars, authVars, recordVars, widgetVars, sessionVars, pageVars, storeVars>>
    /\ Cap'

handleUserSpeech(a, unset, r0, o0) ==
    /\ sends' = sends (+) One([a |-> a, unset |-> unset])
    /\ Commit(isCallActive, PROCESSING, vsError, StopRec(r0), o0,
              utterActive, utterCancelled, conversationId)
    /\ UNCHANGED <<timer, hasRecognition, location, testVars, authVars, recordVars, widgetVars, sessionVars, pageVars, storeVars>>
    /\ Cap'

\* recognition.onresult with a final transcript, from recognition.current
recognitionOnResult ==
    /\ recCur.st = "running" \/ (recCur.st = "stopping" /\ recCur.res)
    /\ handleUserSpeech(recCur.a, recCur.unset, [recCur EXCEPT !.res = FALSE], oldRecs)

\* recognition.onresult with a final transcript, from a recognizer that an
\* effect cleanup stopped
staleOnResult(k) ==
    /\ BagIn(k, oldRecs) /\ k.res
    /\ handleUserSpeech(k.a, k.unset, recCur,
                        (oldRecs (-) One(k)) (+) One([k EXCEPT !.res = FALSE]))

\* recognition.onerror; noSpeech: event.error === 'no-speech'.  The recognizer
\* ends after an error.
recognitionOnError(noSpeech) ==
    /\ recCur.st = "running"
    /\ recCur' = [recCur EXCEPT !.st = "stopping", !.res = FALSE]
    /\ vsError' = IF showVoiceSupport /\ ~noSpeech THEN ErrRecognition ELSE vsError
    /\ UNCHANGED <<voiceState, isCallActive, callDuration,
                   oldRecs, utterActive, utterCancelled, callTimer, timer, sends,
                   hasRecognition, location, testVars, authVars, recordVars, widgetVars, sessionVars, pageVars, storeVars>>

\* recognition.onend of recognition.current: the closure's isCallActive and
\* voiceState decide the restart, recognition.current is read when it runs
recognitionOnEnd ==
    LET ended == [recCur EXCEPT !.st = "idle", !.res = FALSE]
        restart == recCur.a /\ recCur.l
    IN  /\ recCur.st \in {"running", "stopping"}
        /\ recCur' = IF restart THEN StartRec(ended) ELSE ended
        /\ UNCHANGED <<voiceVars, oldRecs, utterActive, utterCancelled, callTimer, timer,
                       sends, hasRecognition, location, testVars, authVars, recordVars, widgetVars, sessionVars, pageVars, storeVars>>

\* recognition.onend of a recognizer that an effect cleanup stopped
staleOnEnd(k) ==
    LET restart == k.a /\ k.l
    IN  /\ BagIn(k, oldRecs)
        /\ oldRecs' = oldRecs (-) One(k)
        /\ recCur' = IF restart THEN StartRec(recCur) ELSE recCur
        /\ UNCHANGED <<voiceVars, utterActive, utterCancelled, callTimer, timer,
                       sends, hasRecognition, location, testVars, authVars, recordVars, widgetVars, sessionVars, pageVars, storeVars>>

\* ----------------------------------------------- Chat page: the voice send
\* `if (response.data.conversation_id && !conversationId)` with the
\* conversationId the handler closed over, then setConversationId.
\* SetIfUnset_Always is the assignment without the `!conversationId` test.
SetIfUnset_Always(cid, unset) == IF cid # Null THEN cid ELSE conversationId

SetIfUnset(cid, unset) == IF cid # Null /\ unset THEN cid ELSE conversationId

\* chatAPI.sendMessage resolves for the voice send s: the rest of
\* handleVoiceSendMessage, then the rest of handleUserSpeech
voiceSendResolves(s, cid, reply, conf) ==
    /\ BagIn(s, sends)
    /\ Count("assistant", "voice") < MaxVoiceTurns
    /\ sends' = sends (-) One(s)
    /\ conversationId' = SetIfUnset(cid, s.unset)
    /\ messages' = addMessage(addMessage(messages, Msg("user", "voice", "q", Null)),
                              Msg("assistant", "voice", reply, conf))
    /\ IF reply # ""
       THEN speakResponse(s.a, FALSE, vsError, conversationId')
       ELSE Commit(isCallActive, voiceState, vsError, recCur,
                   oldRecs, utterActive, utterCancelled, conversationId')
    /\ UNCHANGED <<timer, hasRecognition, location, testVars, authVars, recordVars, widgetVars, sessionVars, pageVars, isLoading, error>>
    /\ Cap'

\* chatAPI.sendMessage rejects for the voice send s: handleVoiceSendMessage
\* throws, the catch of handleUserSpeech runs
voiceSendRejects(s) ==
    /\ BagIn(s, sends)
    /\ sends' = sends (-) One(s)
    /\ Commit(isCallActive, LISTENING, ErrProcess, StartRec(recCur),
              oldRecs, utterActive, utterCancelled, conversationId)
    /\ UNCHANGED <<timer, hasRecognition, location, testVars, authVars, recordVars, widgetVars, sessionVars, pageVars, storeVars>>
    /\ Cap'

\* ------------------------------------------------ Chat page: the typed path
\* speakText(text): synthesis.cancel(), a new utterance, synthesis.speak()
speakText ==
    /\ utterActive' = ChatUtter
    /\ utterCancelled' = CancelBag(utterActive, utterCancelled)

\* handleSend with non-blank input; the page is covered while the voice
\* overlay is shown.  handleSend_NoPendingTest is handleSend without the
\* sendMessageMutation.isPending test.
handleSend_NoPendingTest ==
    /\ ~showVoiceSupport
    /\ Count("user", "typed") < MaxTypedTurns
    /\ messages' = addMessage(messages, Msg("user", "typed", "q", Null))
    /\ isPending' = TRUE /\ isError' = FALSE
    /\ pendingConv' = conversationId
    /\ UNCHANGED <<voiceVars, speechVars, hasRecognition, location, testVars, authVars, recordVars, widgetVars, sessionVars, showVoiceSupport,
                   isSpeaking, voiceEnabled, conversationId, isLoading, error>>

handleSend ==
    /\ ~showVoiceSupport
    /\ ~isPending
    /\ Count("user", "typed") < MaxTypedTurns
    /\ messages' = addMessage(messages, Msg("user", "typed", "q", Null))
    /\ isPending' = TRUE /\ isError' = FALSE
    /\ pendingConv' = conversationId
    /\ UNCHANGED <<voiceVars, speechVars, hasRecognition, location, testVars, authVars, recordVars, widgetVars, sessionVars, showVoiceSupport,
                   isSpeaking, voiceEnabled, conversationId, isLoading, error>>

\* sendMessageMutation: the request resolves, onSuccess of the current render
typedSendResolves(cid, reply, conf) ==
    /\ isPending
    /\ isPending' = FALSE /\ pendingConv' = Null
    /\ conversationId' = SetIfUnset(cid, conversationId = Null)
    /\ messages' = addMessage(messages, Msg("assistant", "typed", reply, conf))
    /\ IF voiceEnabled /\ reply # ""
       THEN speakText
       ELSE UNCHANGED <<utterActive, utterCancelled>>
    /\ UNCHANGED <<voiceVars, recCur, oldRecs, callTimer, timer, sends, hasRecognition, location, testVars, authVars, recordVars, widgetVars, sessionVars,
                   showVoiceSupport, isError, isSpeaking, voiceEnabled,
                   isLoading, error>>
    /\ Cap'

\* sendMessageMutation: the request rejects; the mutation has no onError
typedSendRejects ==
    /\ isPending
    /\ isPending' = FALSE /\ pendingConv' = Null /\ isError' = TRUE
    /\ UNCHANGED <<voiceVars, speechVars, hasRecognition, location, testVars, authVars, recordVars, widgetVars, sessionVars, showVoiceSupport,
                   isSpeaking, voiceEnabled, storeVars>>

\* onClick={() => setVoiceEnabled(!voiceEnabled)}
toggleVoiceEnabled ==
    /\ ~showVoiceSupport
    /\ voiceEnabled' = ~voiceEnabled
    /\ UNCHANGED <<voiceVars, speechVars, hasRecognition, location, testVars, authVars, recordVars, widgetVars, sessionVars, showVoiceSupport,
                   isPending, pendingConv, isError, isSpeaking, storeVars>>

\* the speaker button of an assistant message: speakText(message.content)
speakMessage ==
    /\ ~showVoiceSupport /\ voiceEnabled
    /\ \E n \in 1..Len(messages) : messages[n].role = "assistant"
    /\ speakText
    /\ UNCHANGED <<voiceVars, recCur, oldRecs, callTimer, timer, sends, hasRecognition, location, testVars, authVars, recordVars, widgetVars, sessionVars,
                   pageVars, storeVars>>
    /\ Cap'

stopSpeaking ==
    /\ ~showVoiceSupport /\ isSpeaking
    /\ utterActive' = NoUtter
    /\ utterCancelled' = CancelBag(utterActive, utterCancelled)
    /\ isSpeaking' = FALSE
    /\ UNCHANGED <<voiceVars, recCur, oldRecs, callTimer, timer, sends, hasRecognition, location, testVars, authVars, recordVars, widgetVars, sessionVars,
                   showVoiceSupport, isPending, pendingConv, isError, voiceEnabled,
                   storeVars>>
    /\ Cap'

\* utterance.onstart of speakText
chatUtteranceOnStart ==
    /\ utterActive.owner = "chat" /\ ~utterActive.started
    /\ utterActive' = [utterActive EXCEPT !.started = TRUE]
    /\ isSpeaking' = TRUE
    /\ UNCHANGED <<voiceVars, recCur, oldRecs, utterCancelled, callTimer, timer, sends,
                   hasRecognition, location, testVars, authVars, recordVars, widgetVars, sessionVars, showVoiceSupport, isPending, pendingConv, isError,
                   voiceEnabled, storeVars>>

\* the terminal event of an utterance of speakText: onend sets isSpeaking to
\* false, an error event has no handler
chatUtteranceDone(u, src, isEnd) ==
    /\ IsUtterance(u, src) /\ u.owner = "chat"
    /\ utterActive' = AfterActive(src)
    /\ utterCancelled' = AfterCancelled(u, src)
    /\ isSpeaking' = IF isEnd THEN FALSE ELSE isSpeaking
    /\ UNCHANGED <<voiceVars, recCur, oldRecs, callTimer, timer, sends,
                   hasRecognition, location, testVars, authVars, recordVars, widgetVars, sessionVars, showVoiceSupport, isPending, pendingConv, isError,
                   voiceEnabled, storeVars>>

\* startNewConversation: setConversationId(null), then
\* useChatStore.getState().clearMessages() which the store does not define
startNewConversation ==
    /\ ~showVoiceSupport
    /\ conversationId' = Null
    /\ UNCHANGED <<voiceVars, speechVars, hasRecognition, location, testVars, authVars, recordVars, widgetVars, sessionVars, pageVars,
                   messages, isLoading, error>>

\* ---------------------------------------------- Chat page: the microphone
\* The page makes its own recognizer when it mounts, if the browser has one
\* (continuous = false); its onresult only fills the input field, which is not
\* followed.  toggleRecording: without a recognizer it alerts and returns;
\* otherwise stop() while recording, start() and setIsRecording(true) if not.
\* toggleRecording_NoSupportTest is toggleRecording taking the recognizer to
\* be there.  The button is behind the overlay while the overlay is open.
toggleRecording_NoSupportTest ==
    /\ ~showVoiceSupport
    /\ pageRec' = IF isRecording THEN "stopping" ELSE "running"
    /\ isRecording' = TRUE
    /\ UNCHANGED <<voiceVars, speechVars, pageVars, storeVars, sessionVars,
                   hasRecognition, location, testVars, authVars, widgetVars>>

toggleRecording ==
    /\ ~showVoiceSupport
    /\ IF pageRec = "none"
       THEN UNCHANGED vars
       ELSE /\ pageRec' = IF isRecording THEN "stopping" ELSE "running"
            /\ isRecording' = TRUE
            /\ UNCHANGED <<voiceVars, speechVars, pageVars, storeVars, sessionVars,
                           hasRecognition, location, testVars, authVars, widgetVars>>

\* recognition.current.onend = () => setIsRecording(false)
pageRecognitionOnEnd ==
    /\ pageRec \in {"running", "stopping"}
    /\ pageRec' = "idle"
    /\ isRecording' = FALSE
    /\ UNCHANGED <<voiceVars, speechVars, pageVars, storeVars, sessionVars,
                   hasRecognition, location, testVars, authVars, widgetVars>>

\* ------------------------------------------------- chat store: the session
\* initSession: localStorage.getItem('chat_session_id') || crypto.randomUUID(),
\* persisted, stored in the state and returned (the value returned is
\* sessionId').  initSession_AlwaysNew is initSession without the getItem.
initSession_AlwaysNew ==
    /\ uuids < MaxUuids
    /\ uuids' = uuids + 1
    /\ persisted' = Uuid(uuids + 1)
    /\ sessionId' = Uuid(uuids + 1)
    /\ UNCHANGED <<voiceVars, speechVars, pageVars, storeVars, now, clearedId,
                   hasRecognition, location, testVars, authVars, recordVars, widgetVars>>

initSession ==
    /\ persisted # Null \/ uuids < MaxUuids
    /\ uuids' = IF persisted # Null THEN uuids ELSE uuids + 1
    /\ persisted' = IF persisted # Null THEN persisted ELSE Uuid(uuids + 1)
    /\ sessionId' = persisted'
    /\ UNCHANGED <<voiceVars, speechVars, pageVars, storeVars, now, clearedId,
                   hasRecognition, location, testVars, authVars, recordVars, widgetVars>>

\* clearChat: localStorage.removeItem('chat_session_id'), then messages,
\* sessionId, conversationId and error are reset.  clearChat_KeepsPersisted is
\* clearChat without the removeItem.
clearChat_KeepsPersisted ==
    /\ clearedId' = persisted
    /\ messages' = <<>> /\ sessionId' = Null /\ conversationId' = Null /\ error' = Null
    /\ UNCHANGED <<voiceVars, speechVars, pageVars, isLoading, persisted, uuids, now,
                   hasRecognition, location, testVars, authVars, recordVars, widgetVars>>

clearChat ==
    /\ clearedId' = persisted
    /\ persisted' = Null
    /\ messages' = <<>> /\ sessionId' = Null /\ conversationId' = Null /\ error' = Null
    /\ UNCHANGED <<voiceVars, speechVars, pageVars, isLoading, uuids, now,
                   hasRecognition, location, testVars, authVars, recordVars, widgetVars>>

\* addMessage called with a message that has no id
directAddMessage ==
    /\ uuids < MaxUuids
    /\ Count("user", "direct") < MaxDirect
    /\ messages' = addMessage(messages, NoIdMsg)
    /\ uuids' = uuids + 1
    /\ UNCHANGED <<voiceVars, speechVars, pageVars, conversationId, isLoading, error,
                   sessionId, persisted, now, clearedId, hasRecognition, location, testVars, authVars, recordVars, widgetVars>>

\* the values setError, setMessages are called with
StoreErrors == {Null, "e1", "e2"}

StoredLog ==
    <<[role |-> "assistant", via |-> "direct", content |-> "r1", conf |-> Null,
       id |-> "m1", timestamp |-> "t1"]>>

SetLogs == {<<>>, StoredLog}

\* setMessages: (messages) => set({ messages })
setMessages(log) ==
    /\ messages' = log
    /\ UNCHANGED <<voiceVars, speechVars, pageVars, conversationId, isLoading, error,
                   sessionVars, hasRecognition, location, testVars, authVars, recordVars, widgetVars>>

\* setConversationId: (id) => set({ conversationId: id })
setConversationId(id) ==
    /\ conversationId' = id
    /\ UNCHANGED <<voiceVars, speechVars, pageVars, messages, isLoading, error,
                   sessionVars, hasRecognition, location, testVars, authVars, recordVars, widgetVars>>

\* setLoading: (isLoading) => set({ isLoading }).  setLoading_ClearsError also
\* resets error.
setLoading_ClearsError(b) ==
    /\ isLoading' = b
    /\ error' = Null
    /\ UNCHANGED <<voiceVars, speechVars, pageVars, messages, conversationId,
                   sessionVars, hasRecognition, location, testVars, authVars, recordVars, widgetVars>>

setLoading(b) ==
    /\ isLoading' = b
    /\ UNCHANGED <<voiceVars, speechVars, pageVars, messages, conversationId, error,
                   sessionVars, hasRecognition, location, testVars, authVars, recordVars, widgetVars>>

\* setError: (error) => set({ error })
setError(err) ==
    /\ error' = err
    /\ UNCHANGED <<voiceVars, speechVars, pageVars, messages, conversationId, isLoading,
                   sessionVars, hasRecognition, location, testVars, authVars, recordVars, widgetVars>>

\* clearError: () => set({ error: null })
clearError ==
    /\ error' = Null
    /\ UNCHANGED <<voiceVars, speechVars, pageVars, messages, conversationId, isLoading,
                   sessionVars, hasRecognition, location, testVars, authVars, recordVars, widgetVars>>

\* the clock reaches the next value Date.now() returns
clockTick ==
    /\ now < MaxClock
    /\ now' = now + 1
    /\ UNCHANGED <<voiceVars, speechVars, pageVars, storeVars, sessionId, persisted,
                   uuids, clearedId, hasRecognition, location, testVars, authVars, recordVars, widgetVars>>

\* ------------------------------------------------------ embeddable widget
\* the values of #custopilot-input that are followed, and String.trim on them
WidgetInputs == {"", " ", "hi"}

Trim(v) == IF v = " " THEN "" ELSE v

\* welcome_message of the public config: absent or present
WelcomeMessages == {"", "w"}

DefaultWelcome == "Hi! How can I help you today?"

Fallback == "Sorry, something went wrong. Please try again."

\* addMessage(content, role) of the widget: messages.push and one bubble
widgetAddMessage(log, content, role) == Append(log, [content |-> content, role |-> role])

WidgetCount(role) == Cardinality({i \in 1..Len(widgetMessages) : widgetMessages[i].role = role})

\* hideTypingIndicator removes the element found by its id, if there is one.
\* hideTypingIndicator_Noop leaves it in place.
hideTypingIndicator_Noop(n) == n

hideTypingIndicator(n) == IF n > 0 THEN n - 1 ELSE 0

\* init() up to its await: the style element is appended to document.head,
\* then the public config is fetched
init ==
    /\ widgetInit = "start"
    /\ styleEls' = styleEls + 1
    /\ widgetInit' = "fetching"
    /\ UNCHANGED <<voiceVars, speechVars, pageVars, storeVars, sessionVars,
                   hasRecognition, location, testVars, authVars, recordVars, container, listeners, widgetIsOpen, widgetIsLoading,
                   widgetMessages, widgetConversationId, typingEls, widgetInput,
                   inputDisabled, widgetPosts>>

\* fetch rejects, the response is not ok, or response.json() rejects: the
\* catch logs and returns
configFetchFails ==
    /\ widgetInit = "fetching"
    /\ widgetInit' = "failed"
    /\ UNCHANGED <<voiceVars, speechVars, pageVars, storeVars, sessionVars,
                   hasRecognition, location, testVars, authVars, recordVars, styleEls, container, listeners, widgetIsOpen,
                   widgetIsLoading, widgetMessages, widgetConversationId, typingEls,
                   widgetInput, inputDisabled, widgetPosts>>

\* the config is an object: container, applyPrimaryColor (a second style
\* element), attachEventListeners, welcome message
configFetchSucceeds(welcome) ==
    /\ widgetInit = "fetching"
    /\ widgetInit' = "ready"
    /\ container' = TRUE
    /\ styleEls' = styleEls + 1
    /\ listeners' = TRUE
    /\ widgetMessages' =
          widgetAddMessage(widgetMessages,
                           IF welcome = "" THEN DefaultWelcome ELSE welcome, "bot")
    /\ UNCHANGED <<voiceVars, speechVars, pageVars, storeVars, sessionVars,
                   hasRecognition, location, testVars, authVars, recordVars, widgetIsOpen, widgetIsLoading, widgetConversationId,
                   typingEls, widgetInput, inputDisabled, widgetPosts>>

\* the response is ok and its body is the JSON value null: the container is
\* appended (createWidgetHTML reads chatbotConfig?.name), then
\* chatbotConfig.primary_color throws outside the try and init() rejects
configFetchNullBody ==
    /\ widgetInit = "fetching"
    /\ widgetInit' = "threw"
    /\ container' = TRUE
    /\ UNCHANGED <<voiceVars, speechVars, pageVars, storeVars, sessionVars,
                   hasRecognition, location, testVars, authVars, recordVars, styleEls, listeners, widgetIsOpen, widgetIsLoading,
                   widgetMessages, widgetConversationId, typingEls, widgetInput,
                   inputDisabled, widgetPosts>>

toggleChat ==
    /\ listeners
    /\ widgetIsOpen' = ~widgetIsOpen
    /\ UNCHANGED <<voiceVars, speechVars, pageVars, storeVars, sessionVars,
                   hasRecognition, location, testVars, authVars, recordVars, widgetInit, styleEls, container, listeners,
                   widgetIsLoading, widgetMessages, widgetConversationId, typingEls,
                   widgetInput, inputDisabled, widgetPosts>>

\* the user edits the input, which a disabled input does not allow
widgetType(v) ==
    /\ container /\ ~inputDisabled
    /\ v # widgetInput
    /\ widgetInput' = v
    /\ UNCHANGED <<voiceVars, speechVars, pageVars, storeVars, sessionVars,
                   hasRecognition, location, testVars, authVars, recordVars, widgetInit, styleEls, container, listeners,
                   widgetIsOpen, widgetIsLoading, widgetMessages, widgetConversationId,
                   typingEls, inputDisabled, widgetPosts>>

\* sendMessage up to its await (click on the send button or Enter)
sendMessage ==
    /\ listeners
    /\ ~(Trim(widgetInput) = "" \/ widgetIsLoading)
    /\ WidgetCount("user") < MaxWidgetSends
    /\ widgetInput' = ""
    /\ widgetMessages' = widgetAddMessage(widgetMessages, Trim(widgetInput), "user")
    /\ widgetIsLoading' = TRUE
    /\ inputDisabled' = TRUE
    /\ typingEls' = typingEls + 1
    /\ widgetPosts' = widgetPosts + 1
    /\ UNCHANGED <<voiceVars, speechVars, pageVars, storeVars, sessionVars,
                   hasRecognition, location, testVars, authVars, recordVars, widgetInit, styleEls, container, listeners,
                   widgetIsOpen, widgetConversationId>>

\* the POST resolves with an ok response whose body is an object
widgetSendResolves(cid, reply) ==
    /\ widgetPosts > 0
    /\ widgetPosts' = widgetPosts - 1
    /\ widgetConversationId' = cid
    /\ typingEls' = hideTypingIndicator(typingEls)
    /\ widgetMessages' = widgetAddMessage(widgetMessages, reply, "bot")
    /\ widgetIsLoading' = FALSE
    /\ inputDisabled' = FALSE
    /\ UNCHANGED <<voiceVars, speechVars, pageVars, storeVars, sessionVars,
                   hasRecognition, location, testVars, authVars, recordVars, widgetInit, styleEls, container, listeners,
                   widgetIsOpen, widgetInput>>

\* the POST rejects, the response is not ok or its body cannot be read
widgetSendFails ==
    /\ widgetPosts > 0
    /\ widgetPosts' = widgetPosts - 1
    /\ typingEls' = hideTypingIndicator(typingEls)
    /\ widgetMessages' = widgetAddMessage(widgetMessages, Fallback, "bot")
    /\ widgetIsLoading' = FALSE
    /\ inputDisabled' = FALSE
    /\ UNCHANGED <<voiceVars, speechVars, pageVars, storeVars, sessionVars,
                   hasRecognition, location, testVars, authVars, recordVars, widgetInit, styleEls, container, listeners,
                   widgetIsOpen, widgetConversationId, widgetInput>>

\* ------------------------------------------------------------- auth store
\* access tokens the backend issues; a user object is followed by its role
\* ("norole": a user object without a role)
Tokens == {"t1", "t2"}

Users == {"admin", "support", "customer", "norole"}

\* HTTP outcomes of a failed request that are told apart: 401, anything else
Failures == {"401", "other"}

LoginFailed == "Login failed"

RegistrationFailed == "Registration failed"

OtherStoreVars ==
    <<voiceVars, speechVars, pageVars, storeVars, sessionVars, hasRecognition,
      recordVars, widgetVars, testVars, location>>

\* the response interceptor of the HTTP client: on a 401 it removes
\* localStorage 'token' and assigns window.location.href = '/login'
AfterInterceptor(status, ls) == IF status = "401" THEN Null ELSE ls

Redirects(status) == status = "401" \/ navigating

\* login / register up to the await; kind is "login" or "register"
authSubmit(kind) ==
    /\ ~navigating
    /\ BagCardinality(authCalls) < MaxAuthCalls
    /\ authIsLoading' = TRUE /\ authError' = Null
    /\ authCalls' = authCalls (+) One([kind |-> kind, tok |-> Null])
    /\ UNCHANGED <<user, token, isAuthenticated, lsToken, navigating, OtherStoreVars>>

login == authSubmit("login")

register == authSubmit("register")

\* the request of login or register resolves with { access_token, user }
authResolves(c, tok, u) ==
    /\ ~navigating
    /\ BagIn(c, authCalls) /\ c.kind \in {"login", "register"}
    /\ authCalls' = authCalls (-) One(c)
    /\ lsToken' = tok
    /\ user' = u /\ token' = tok /\ isAuthenticated' = TRUE /\ authIsLoading' = FALSE
    /\ UNCHANGED <<authError, navigating, OtherStoreVars>>

\* the request of login or register fails: the interceptor, then the catch.
\* authRejects_KeepsLoading is the catch without isLoading: false.
authRejects_KeepsLoading(c, status) ==
    /\ ~navigating
    /\ BagIn(c, authCalls) /\ c.kind \in {"login", "register"}
    /\ authCalls' = authCalls (-) One(c)
    /\ lsToken' = AfterInterceptor(status, lsToken)
    /\ navigating' = Redirects(status)
    /\ authError' = IF c.kind = "login" THEN LoginFailed ELSE RegistrationFailed
    /\ UNCHANGED <<user, token, isAuthenticated, authIsLoading, OtherStoreVars>>

authRejects(c, status) ==
    /\ ~navigating
    /\ BagIn(c, authCalls) /\ c.kind \in {"login", "register"}
    /\ authCalls' = authCalls (-) One(c)
    /\ lsToken' = AfterInterceptor(status, lsToken)
    /\ navigating' = Redirects(status)
    /\ authError' = IF c.kind = "login" THEN LoginFailed ELSE RegistrationFailed
    /\ authIsLoading' = FALSE
    /\ UNCHANGED <<user, token, isAuthenticated, OtherStoreVars>>

logout ==
    /\ ~navigating
    /\ lsToken' = Null
    /\ user' = Null /\ token' = Null /\ isAuthenticated' = FALSE
    /\ UNCHANGED <<authIsLoading, authError, authCalls, navigating, OtherStoreVars>>

\* checkAuth up to the await of authAPI.me(), or its early return
checkAuth ==
    /\ ~navigating
    /\ IF lsToken = Null
       THEN /\ isAuthenticated' = FALSE
            /\ UNCHANGED authCalls
       ELSE /\ BagCardinality(authCalls) < MaxAuthCalls
            /\ authCalls' = authCalls (+) One([kind |-> "me", tok |-> lsToken])
            /\ UNCHANGED isAuthenticated
    /\ UNCHANGED <<user, token, authIsLoading, authError, lsToken, navigating,
                   OtherStoreVars>>

\* authAPI.me() resolves with the user
checkAuthResolves(c, u) ==
    /\ ~navigating
    /\ BagIn(c, authCalls) /\ c.kind = "me"
    /\ authCalls' = authCalls (-) One(c)
    /\ user' = u /\ token' = c.tok /\ isAuthenticated' = TRUE
    /\ UNCHANGED <<authIsLoading, authError, lsToken, navigating, OtherStoreVars>>

\* authAPI.me() fails: the interceptor, then the catch
checkAuthRejects(c, status) ==
    /\ ~navigating
    /\ BagIn(c, authCalls) /\ c.kind = "me"
    /\ authCalls' = authCalls (-) One(c)
    /\ lsToken' = Null
    /\ navigating' = Redirects(status)
    /\ user' = Null /\ token' = Null /\ isAuthenticated' = FALSE
    /\ UNCHANGED <<authIsLoading, authError, OtherStoreVars>>

\* a request of a page (organizationsAPI, chatbotsAPI, ...) is answered 401
apiResponse401 ==
    /\ ~navigating
    /\ lsToken' = Null
    /\ navigating' = TRUE
    /\ UNCHANGED <<user, token, isAuthenticated, authIsLoading, authError, authCalls,
                   OtherStoreVars>>

\* the page loads at /login: the requests of the old page are gone, the store
\* is created again and persist rehydrates user, token and isAuthenticated
pageLoad ==
    /\ navigating
    /\ navigating' = FALSE
    /\ authCalls' = EmptyBag
    /\ authIsLoading' = FALSE /\ authError' = Null
    /\ location' = "/login"
    /\ UNCHANGED <<user, token, isAuthenticated, lsToken, voiceVars, speechVars,
                   pageVars, storeVars, sessionVars, hasRecognition, recordVars,
                   widgetVars, testVars>>

\* ------------------------------------------------------------- the router
AdminPaths == {"/admin", "/admin/test-chat"}
SupportPaths == {"/support", "/support/escalations"}
Paths == {"/", "/login", "/register", "/chat/demo"} \cup AdminPaths \cup SupportPaths

Navigate(to) == [kind |-> "Navigate", to |-> to]
Page(name) == [kind |-> "page", to |-> name]

\* user?.role
Role == IF user \in {Null, "norole"} THEN Null ELSE user

ProtectedRoute_NoRoleTest(allowedRoles, children) ==
    IF ~isAuthenticated THEN Navigate("/login") ELSE children

ProtectedRoute(allowedRoles, children) ==
    IF ~isAuthenticated
    THEN Navigate("/login")
    ELSE IF Role \notin allowedRoles THEN Navigate("/") ELSE children

\* the element <Routes> renders for a path
App(path) ==
    CASE path = "/login" -> Page("Login")
      [] path = "/register" -> Page("Register")
      [] path = "/chat/demo" -> Page("CustomerChat")
      [] path \in AdminPaths -> ProtectedRoute({"admin"}, Page("AdminLayout"))
      [] path \in SupportPaths -> ProtectedRoute({"admin", "support"}, Page("SupportLayout"))
      [] path = "/" ->
            IF isAuthenticated
            THEN IF Role = "admin"
                 THEN Navigate("/admin")
                 ELSE IF Role = "support" THEN Navigate("/support")
                      ELSE Navigate("/chat/demo")
            ELSE Navigate("/login")

Settled == App(location).kind = "page"

\* a link, navigate() of a page or the address bar, on a rendered page
navigate(path) ==
    /\ Settled
    /\ path # location
    /\ location' = path
    /\ UNCHANGED <<voiceVars, speechVars, pageVars, storeVars, sessionVars,
                   hasRecognition, recordVars, widgetVars, testVars, authVars>>

\* the effect of a rendered <Navigate to replace />
redirect ==
    /\ App(location).kind = "Navigate"
    /\ location' = App(location).to
    /\ UNCHANGED <<voiceVars, speechVars, pageVars, storeVars, sessionVars,
                   hasRecognition, recordVars, widgetVars, testVars, authVars>>

\* ------------------------------------------------------ TestChatbot page
\* The organization id and the chatbot list are taken to be there.  A message
\* carries the number of the conversation (sessionId) it was made in, a send
\* the number of the conversation it was issued in.
NonTestVars ==
    <<voiceVars, speechVars, pageVars, storeVars, sessionVars, hasRecognition,
      recordVars, widgetVars, authVars, location>>

Chatbots == {"b1", "b2"}

TestFailed == "Failed to send message"

TestMessage(role, content, conv) == [role |-> role, content |-> content, conv |-> conv]

\* prev.slice(0, -1)
DropLast(log) == SubSeq(log, 1, Len(log) - 1)

TestUserCount == Cardinality({n \in 1..Len(testMessages) : testMessages[n].role = "user"})

\* setSelectedChatbot(bot) by the select or by the auto-select effect; when
\* the chatbot changed to one, the effect on [selectedChatbot] runs
\* startNewConversation: a new sessionId, no error, the welcome message
selectChatbot(bot) ==
    /\ bot # selectedChatbot
    /\ selectedChatbot' = bot
    /\ IF bot # Null
       THEN /\ testConv < MaxTestConvs
            /\ testConv' = testConv + 1
            /\ testError' = Null
            /\ testMessages' = <<TestMessage("assistant", "welcome", testConv + 1)>>
       ELSE UNCHANGED <<testConv, testError, testMessages>>
    /\ UNCHANGED <<testInput, testLoading, testSends, NonTestVars>>

\* the New Chat button, disabled without a chatbot
testStartNewConversation ==
    /\ selectedChatbot # Null
    /\ testConv < MaxTestConvs
    /\ testConv' = testConv + 1
    /\ testError' = Null
    /\ testMessages' = <<TestMessage("assistant", "welcome", testConv + 1)>>
    /\ UNCHANGED <<selectedChatbot, testInput, testLoading, testSends, NonTestVars>>

\* the user edits the input, which is disabled without a chatbot and while
\* loading
testType(v) ==
    /\ selectedChatbot # Null /\ ~testLoading
    /\ v # testInput
    /\ testInput' = v
    /\ UNCHANGED <<selectedChatbot, testMessages, testLoading, testError, testConv,
                   testSends, NonTestVars>>

\* sendMessage up to its await
testSendMessage ==
    /\ ~(Trim(testInput) = "" \/ selectedChatbot = Null \/ testLoading)
    /\ TestUserCount < MaxTestSends
    /\ testInput' = ""
    /\ testError' = Null
    /\ testMessages' = Append(testMessages, TestMessage("user", Trim(testInput), testConv))
    /\ testLoading' = TRUE
    /\ testSends' = testSends (+) One([conv |-> testConv])
    /\ UNCHANGED <<selectedChatbot, testConv, NonTestVars>>

\* chatAPI.sendMessage resolves: the reply is appended, finally
testSendResolves(s) ==
    /\ BagIn(s, testSends)
    /\ testSends' = testSends (-) One(s)
    /\ testMessages' = Append(testMessages, TestMessage("assistant", "r1", s.conv))
    /\ testLoading' = FALSE
    /\ UNCHANGED <<selectedChatbot, testInput, testError, testConv, NonTestVars>>

\* chatAPI.sendMessage rejects: the error, the last message is removed, finally
testSendRejects(s) ==
    /\ BagIn(s, testSends)
    /\ testSends' = testSends (-) One(s)
    /\ testError' = TestFailed
    /\ testMessages' = DropLast(testMessages)
    /\ testLoading' = FALSE
    /\ UNCHANGED <<selectedChatbot, testInput, testConv, NonTestVars>>

\* ------------------------------------------------------------------- Next
\* the voice overlay and its environment
Next ==
    \/ OpenVoiceSupport
    \/ CloseVoiceSupport
    \/ startCall
    \/ endCall
    \/ toggleMute
    \/ muteOutput
    \/ callTimerTick
    \/ greetingTimer
    \/ \E u \in Utterances, src \in Sources : utteranceOnEnd(u, src)
    \/ \E u \in Utterances, src \in Sources : utteranceOnError(u, src)
    \/ recognitionOnResult
    \/ \E k \in BagToSet(oldRecs) : staleOnResult(k)
    \/ \E noSpeech \in BOOLEAN : recognitionOnError(noSpeech)
    \/ recognitionOnEnd
    \/ \E k \in BagToSet(oldRecs) : staleOnEnd(k)
    \/ \E s \in BagToSet(sends), reply \in Replies : voiceSendResolves(s, "c1", reply, Null)
    \/ \E s \in BagToSet(sends) : voiceSendRejects(s)

Spec == Init /\ [][Next]_vars

\* the chat page: typed sends, and voice sends through an overlay whose
\* user only starts and ends calls
NextChat ==
    \/ handleSend /\ Count("user", "typed") < MaxChatTyped
    \/ \E cid \in ConvIds \cup {Null}, reply \in Replies, conf \in Scores :
          typedSendResolves(cid, reply, conf)
    \/ typedSendRejects
    \/ startNewConversation
    \/ OpenVoiceSupport
    \/ startCall
    \/ endCall
    \/ greetingTimer
    \/ \E u \in Utterances, src \in Sources : utteranceOnEnd(u, src)
    \/ \E u \in Utterances, src \in Sources : utteranceOnError(u, src)
    \/ \E k \in BagToSet(oldRecs) : staleOnResult(k)
    \/ \E k \in BagToSet(oldRecs) : staleOnEnd(k)
    \/ \E s \in BagToSet(sends), cid \in ConvIds, reply \in Replies :
          voiceSendResolves(s, cid, reply, Null)
    \/ \E s \in BagToSet(sends) : voiceSendRejects(s)

SpecChat == Init /\ [][NextChat]_vars

\* the chat store, called directly and by the typed path of the chat page
NextStore ==
    \/ initSession
    \/ clearChat
    \/ directAddMessage
    \/ clockTick
    \/ handleSend /\ Count("user", "typed") < MaxChatTyped
    \/ \E cid \in {"c1", Null}, reply \in Replies : typedSendResolves(cid, reply, Null)
    \/ typedSendRejects
    \/ startNewConversation

SpecStore == Init /\ [][NextStore]_vars

\* the typed path of the chat page
NextTyped ==
    \/ handleSend
    \/ \E cid \in ConvIds \cup {Null}, reply \in Replies, conf \in Scores :
          typedSendResolves(cid, reply, conf)
    \/ typedSendRejects
    \/ startNewConversation
    \/ clockTick

SpecTyped == Init /\ [][NextTyped]_vars

\* the chat page's own speech output
NextSpeech ==
    \/ handleSend
    \/ \E reply \in Replies : typedSendResolves("c1", reply, Null)
    \/ toggleVoiceEnabled
    \/ speakMessage
    \/ stopSpeaking
    \/ chatUtteranceOnStart
    \/ \E u \in Utterances, src \in Sources, isEnd \in BOOLEAN : chatUtteranceDone(u, src, isEnd)

SpecSpeech == Init /\ [][NextSpeech]_vars

\* the voice overlay and the page's microphone button
NextDegraded ==
    \/ OpenVoiceSupport
    \/ CloseVoiceSupport
    \/ startCall
    \/ endCall
    \/ toggleMute
    \/ muteOutput
    \/ greetingTimer
    \/ \E u \in Utterances, src \in Sources : utteranceOnEnd(u, src)
    \/ \E u \in Utterances, src \in Sources : utteranceOnError(u, src)
    \/ recognitionOnResult
    \/ \E k \in BagToSet(oldRecs) : staleOnResult(k)
    \/ \E noSpeech \in BOOLEAN : recognitionOnError(noSpeech)
    \/ recognitionOnEnd
    \/ \E k \in BagToSet(oldRecs) : staleOnEnd(k)
    \/ \E s \in BagToSet(sends) : voiceSendResolves(s, "c1", "r1", Null)
    \/ \E s \in BagToSet(sends) : voiceSendRejects(s)
    \/ toggleRecording
    \/ pageRecognitionOnEnd

SpecDegraded == Init /\ [][NextDegraded]_vars

\* the chat store's actions, called in any order
NextFlags ==
    \/ initSession
    \/ clearChat
    \/ directAddMessage
    \/ \E log \in SetLogs : setMessages(log)
    \/ \E id \in ConvIds \cup {Null} : setConversationId(id)
    \/ \E b \in BOOLEAN : setLoading(b)
    \/ \E err \in StoreErrors : setError(err)
    \/ clearError

SpecFlags == Init /\ [][NextFlags]_vars

\* the auth store and the HTTP client
NextAuth ==
    \/ login
    \/ register
    \/ \E c \in BagToSet(authCalls), tok \in Tokens, u \in Users : authResolves(c, tok, u)
    \/ \E c \in BagToSet(authCalls), status \in Failures : authRejects(c, status)
    \/ logout
    \/ checkAuth
    \/ \E c \in BagToSet(authCalls), u \in Users : checkAuthResolves(c, u)
    \/ \E c \in BagToSet(authCalls), status \in Failures : checkAuthRejects(c, status)
    \/ apiResponse401
    \/ pageLoad

SpecAuth == Init /\ [][NextAuth]_vars

\* the router over the auth store
NextRoute ==
    \/ NextAuth
    \/ \E path \in Paths : navigate(path)
    \/ redirect

SpecRoute == Init /\ [][NextRoute]_vars

\* <Navigate> navigates in an effect of the render that returned it, which
\* React always runs
SpecRouteLive == SpecRoute /\ WF_vars(redirect)

\* the admin TestChatbot page
NextTest ==
    \/ \E bot \in Chatbots \cup {Null} : selectChatbot(bot)
    \/ testStartNewConversation
    \/ \E v \in {"", " ", "hi"} : testType(v)
    \/ testSendMessage
    \/ \E s \in BagToSet(testSends) : testSendResolves(s)
    \/ \E s \in BagToSet(testSends) : testSendRejects(s)

SpecTest == Init /\ [][NextTest]_vars

\* the embeddable widget on a host page
NextWidget ==
    \/ init
    \/ configFetchFails
    \/ \E welcome \in WelcomeMessages : configFetchSucceeds(welcome)
    \/ configFetchNullBody
    \/ toggleChat
    \/ \E v \in WidgetInputs : widgetType(v)
    \/ sendMessage
    \/ \E cid \in ConvIds, reply \in Replies : widgetSendResolves(cid, reply)
    \/ widgetSendFails

SpecWidget == Init /\ [][NextWidget]_vars

TypeOK ==
    /\ voiceState \in VoiceState
    /\ isCallActive \in BOOLEAN
    /\ Cap

\* ================================================================ claims
\* a step in which recognition.current starts running
RecStarted == recCur'.st = "running" /\ recCur.st # "running"

\* a step in which synthesis.speak() puts a new utterance in the queue
SpeechStarted ==
    /\ utterActive' # NoUtter
    /\ utterActive' # utterActive \/ utterCancelled' # utterCancelled

\* a step of utterance.onend, of utterance.onerror, of either
OnEndStep == \E u \in Utterances, src \in Sources : utteranceOnEnd(u, src)

OnErrorStep == \E u \in Utterances, src \in Sources : utteranceOnError(u, src)

\* a step of one of the callbacks a call leaves behind
LateCallbackStep ==
    \/ greetingTimer
    \/ OnEndStep
    \/ OnErrorStep
    \/ recognitionOnResult
    \/ \E k \in BagToSet(oldRecs) : staleOnResult(k)
    \/ recognitionOnEnd
    \/ \E k \in BagToSet(oldRecs) : staleOnEnd(k)
    \/ \E s \in BagToSet(sends), reply \in Replies : voiceSendResolves(s, "c1", reply, Null)
    \/ \E s \in BagToSet(sends) : voiceSendRejects(s)

\* C1: endCall() while voiceState is 'speaking' leaves voiceState 'idle', and
\* the onend of the utterance that was being spoken, delivered after that
\* endCall, neither moves voiceState to 'listening' nor starts recognition.
C1_EndCallWhileSpeaking ==
    [][/\ (endCall /\ voiceState = SPEAKING) => voiceState' = IDLE
       /\ \A u \in BagToSet(utterCancelled) :
             (u.ended /\ utteranceOnEnd(u, "cancelled"))
                => (voiceState' # LISTENING /\ ~RecStarted)]_vars

\* C2: while no call is active voiceState is 'idle', and every callback that
\* arrives when no call is active is a no-op: it leaves voiceState alone and
\* starts neither recognition nor speech.
C2_LateCallbacksAreNoOps ==
    /\ [](~isCallActive => voiceState = IDLE)
    /\ [][(LateCallbackStep /\ ~isCallActive)
             => (voiceState' = voiceState /\ ~RecStarted /\ ~SpeechStarted)]_vars

\* C3: a final transcript delivered while the call is active and voiceState is
\* 'listening' moves voiceState to 'processing' and adds exactly one
\* onSendMessage call to the calls in flight.
C3_OneSendPerFinalTranscript ==
    [][(/\ recognitionOnResult \/ \E k \in BagToSet(oldRecs) : staleOnResult(k)
        /\ showVoiceSupport /\ isCallActive /\ voiceState = LISTENING)
          => (voiceState' = PROCESSING
              /\ BagCardinality(sends') = BagCardinality(sends) + 1)]_vars

\* the call is active and listening, the recognizer is running and nothing is
\* in flight: the next final transcript is the case of C3
C3_Witness ==
    /\ showVoiceSupport /\ isCallActive /\ voiceState = LISTENING
    /\ recCur.st = "running" /\ sends = EmptyBag

\* C4: startCall() makes the call active and schedules the greeting; while the
\* call is active, the greeting utterance's onend moves voiceState to
\* 'listening' and starts recognition.
C4_GreetingStartsListening ==
    [][/\ startCall => (isCallActive' /\ timer')
       /\ \A u \in Utterances, src \in Sources :
             (u.greeting /\ utteranceOnEnd(u, src) /\ showVoiceSupport /\ isCallActive)
                => (voiceState' = LISTENING /\ CanStart(recCur))]_vars

\* C5: while voiceState is 'speaking', only a terminal callback of an utterance
\* (onend, onerror) moves voiceState to 'listening' or starts recognition.
C5_TurnsAlternate ==
    [][(showVoiceSupport /\ showVoiceSupport' /\ voiceState = SPEAKING
            /\ (voiceState' = LISTENING \/ RecStarted))
          => (OnEndStep \/ OnErrorStep)]_vars

\* C6: a voice send that completes while the call is active leaves voiceState
\* 'speaking' when it succeeded with a non-empty reply, and 'listening' with
\* the error set and recognition started again when it failed.
C6_SendCompletion ==
    [][\A s \in BagToSet(sends) :
          /\ (voiceSendResolves(s, "c1", "r1", Null) /\ showVoiceSupport /\ isCallActive)
                => voiceState' = SPEAKING
          /\ (voiceSendRejects(s) /\ showVoiceSupport /\ isCallActive)
                => (voiceState' = LISTENING /\ vsError' = ErrProcess
                    /\ CanStart(recCur))]_vars

\* C7: after a second speak() the first utterance is cancelled, and the
\* terminal callback of a cancelled utterance, arriving while a later
\* utterance is in the queue, does not change the component state.
C7_OnlyLastUtteranceCounts ==
    [][\A u \in BagToSet(utterCancelled) :
          (/\ utterActive # NoUtter
           /\ \/ utteranceOnEnd(u, "cancelled")
              \/ utteranceOnError(u, "cancelled")
              \/ \E isEnd \in BOOLEAN : chatUtteranceDone(u, "cancelled", isEnd))
             => (voiceState' = voiceState /\ isSpeaking' = isSpeaking)]_vars

\* C8: when a typed send is rejected, the user message stays in the log, a
\* visible error is set and the busy indication is false again.
C8_TypedSendRejected ==
    [][typedSendRejects
          => /\ \E n \in 1..Len(messages') :
                   messages'[n].role = "user" /\ messages'[n].via = "typed"
             /\ error' # Null
             /\ ~isPending' /\ ~isLoading']_vars

\* C9 as stated: a successful typed send appends the assistant message with
\* the returned reply and score to a log that holds the user message, and
\* leaves conversationId the returned id if it was unset when the message was
\* submitted.
C9_TypedSendResolved ==
    [][\A cid \in ConvIds \cup {Null}, reply \in Replies, conf \in Scores :
          typedSendResolves(cid, reply, conf)
             => /\ messages' = addMessage(messages, Msg("assistant", "typed", reply, conf))
                /\ \E n \in 1..Len(messages) :
                      messages[n].role = "user" /\ messages[n].via = "typed"
                /\ (pendingConv = Null /\ cid # Null) => conversationId' = cid]_vars

\* C9 as amended: ... and leaves conversationId the returned id if it is unset
\* when the reply arrives; an id assigned in the meantime is kept.
C9_TypedSendResolvedAmended ==
    [][\A cid \in ConvIds \cup {Null}, reply \in Replies, conf \in Scores :
          typedSendResolves(cid, reply, conf)
             => /\ messages' = addMessage(messages, Msg("assistant", "typed", reply, conf))
                /\ \E n \in 1..Len(messages) :
                      messages[n].role = "user" /\ messages[n].via = "typed"
                /\ (conversationId = Null /\ cid # Null) => conversationId' = cid
                /\ conversationId # Null => conversationId' = conversationId]_vars

\* a typed exchange has succeeded: the reply and its score are in the log
\* after the user message and the returned id is the conversation's
C9_Witness ==
    /\ Len(messages) = 2 /\ ~isPending
    /\ messages[1].role = "user" /\ messages[1].via = "typed"
    /\ messages[2].role = "assistant" /\ messages[2].via = "typed"
    /\ messages[2].content = "r1" /\ messages[2].conf = "0.9"
    /\ conversationId = "c2"

\* C10: once conversationId is set, only the 'new conversation' reset changes it.
C10_ConversationIdStable ==
    [][(conversationId # Null /\ ~startNewConversation)
          => conversationId' = conversationId]_vars

\* the log grows at its end only
Appended(old, new) == Len(new) >= Len(old) /\ SubSeq(new, 1, Len(old)) = old

\* C11: startNewConversation removes the persisted session id and leaves
\* messages, conversationId and error empty; no step removes the persisted
\* session id without emptying the log, or empties the log without removing
\* the persisted session id.
C11_NewConversationResets ==
    [][/\ startNewConversation
             => (persisted' = Null /\ messages' = <<>> /\ conversationId' = Null
                 /\ error' = Null)
       /\ (persisted # Null /\ persisted' = Null) => messages' = <<>>
       /\ (messages # <<>> /\ messages' = <<>>) => persisted' = Null]_vars

\* C12: the log keeps the messages in call order (it only grows at its end
\* until it is cleared), every message in it has a timestamp and an id, and no
\* two messages in it have the same id.
C12_LogOrderIdsTimestamps ==
    /\ [][clearChat \/ Appended(messages, messages')]_vars
    /\ [](\A i \in 1..Len(messages) :
             messages[i].timestamp # Null /\ messages[i].id # Null)
    /\ [](\A i, j \in 1..Len(messages) :
             i # j => messages[i].id # messages[j].id)

\* C13: initSession leaves the store's sessionId (the value it returns) equal
\* to the persisted id, which is the id persisted before when there was one;
\* no step but clearChat changes a persisted id.
C13_InitSessionIdempotent ==
    [][/\ initSession
             => (sessionId' = persisted' /\ persisted' # Null
                 /\ (persisted # Null => persisted' = persisted))
       /\ (persisted # Null /\ ~clearChat) => persisted' = persisted]_vars

\* initSession has run, nothing was cleared: the next call is a repeated one
C13_Witness ==
    /\ sessionId # Null /\ sessionId = persisted
    /\ clearedId = Null /\ uuids = 1

\* C14: clearChat empties the log and resets conversationId, error and the
\* persisted id; initSession after it changes none of the first three and
\* leaves a sessionId that differs from the id persisted before clearChat.
C14_ClearThenInit ==
    /\ [](sessionId # Null => sessionId # clearedId)
    /\ [][clearChat => (messages' = <<>> /\ conversationId' = Null /\ error' = Null
                        /\ persisted' = Null /\ sessionId' = Null)]_vars
    /\ [][initSession => UNCHANGED <<messages, conversationId, error>>]_vars

\* clearChat removed a persisted id and initSession ran after it
C14_Witness ==
    /\ clearedId # Null /\ sessionId # Null /\ sessionId = persisted
    /\ messages = <<>> /\ conversationId = Null /\ error = Null

\* the messages of the typed path, in log order
TypedLog(log) == SelectSeq(log, LAMBDA m : m.via = "typed")

\* C15: on the typed path handleSend runs only while no send is pending and
\* appends the user message at the end of the log; the assistant message of a
\* reply is appended at the end of the log while the last typed message is the
\* user message it answers; the log only grows at its end.
C15_TypedAppendOrder ==
    [][/\ handleSend
             => (~isPending
                 /\ messages' = addMessage(messages, Msg("user", "typed", "q", Null)))
       /\ \A cid \in ConvIds \cup {Null}, reply \in Replies, conf \in Scores :
             typedSendResolves(cid, reply, conf)
                => (/\ TypedLog(messages) # <<>>
                    /\ TypedLog(messages)[Len(TypedLog(messages))].role = "user"
                    /\ messages' = addMessage(messages,
                                              Msg("assistant", "typed", reply, conf)))
       /\ Appended(messages, messages')]_vars

\* a second typed message was submitted after the first one was answered
C15_Witness ==
    /\ Len(messages) >= 3 /\ isPending
    /\ messages[1].role = "user" /\ messages[2].role = "assistant"
    /\ messages[Len(messages)].role = "user"

\* the roles of the messages a step appends to the log
AppendedRoles ==
    IF Appended(messages, messages')
    THEN [n \in 1..(Len(messages') - Len(messages)) |-> messages'[Len(messages) + n].role]
    ELSE <<"rewritten">>

\* (in the three definitions below the first conjunct follows from the second
\* and is there to be evaluated first)
VoiceResolveStep ==
    /\ sends' # sends
    /\ \E s \in BagToSet(sends), cid \in ConvIds, reply \in Replies :
          voiceSendResolves(s, cid, reply, Null)

VoiceRejectStep ==
    /\ sends' # sends
    /\ \E s \in BagToSet(sends) : voiceSendRejects(s)

TypedResolveStep ==
    /\ isPending /\ ~isPending'
    /\ \E cid \in ConvIds \cup {Null}, reply \in Replies, conf \in Scores :
          typedSendResolves(cid, reply, conf)

\* what C16 has in common as stated and as amended: a typed submission appends
\* one user message, a typed reply one assistant message, a voice reply one
\* user message and one assistant message, and no other step changes the log
\* (the three kinds of step exclude each other)
ExchangeMessages ==
    IF messages' = messages
    THEN ~(handleSend \/ TypedResolveStep \/ VoiceResolveStep)
    ELSE CASE handleSend -> AppendedRoles = <<"user">>
           [] TypedResolveStep -> AppendedRoles = <<"assistant">>
           [] VoiceResolveStep -> AppendedRoles = <<"user", "assistant">>
           [] OTHER -> FALSE

\* C16 as stated: every successful exchange adds one user message and one
\* assistant message, and no turn is recorded twice or omitted: when the send
\* of a turn has completed, the user's message of that turn is in the log.
C16_OneMessagePerTurn ==
    [][/\ ExchangeMessages
       /\ VoiceRejectStep => Count("user", "voice")' = Count("user", "voice") + 1]_vars

\* C16 as amended: every successful exchange adds one user message and one
\* assistant message and none is recorded twice; a typed turn whose send fails
\* keeps its user message, a voice turn whose send fails leaves no message.
C16_OneMessagePerExchange ==
    /\ [][/\ ExchangeMessages
          /\ (VoiceRejectStep \/ typedSendRejects) => messages' = messages]_vars
    /\ [](/\ Count("user", "voice") = Count("assistant", "voice")
          /\ Count("user", "typed") >= Count("assistant", "typed")
          /\ isPending => Count("user", "typed") > Count("assistant", "typed"))

\* a typed and a voice exchange have succeeded
C16_Witness ==
    /\ Count("user", "typed") = 1 /\ Count("assistant", "typed") = 1
    /\ Count("user", "voice") = 1 /\ Count("assistant", "voice") = 1

\* C17: when the public-config fetch has failed, init() has inserted no DOM
\* of the widget into the host page and attached no listeners, and no
\* exception escapes.
C17_ConfigFailureLeavesNoDom ==
    /\ [](widgetInit = "failed" =>
             (styleEls = 0 /\ ~container /\ ~listeners /\ widgetMessages = <<>>))
    /\ [][configFetchFails => widgetInit' # "threw"]_vars

WidgetSendDone ==
    \/ \E cid \in ConvIds, reply \in Replies : widgetSendResolves(cid, reply)
    \/ widgetSendFails

\* C18: an accepted send (non-blank input, not busy) appends the user message,
\* shows the typing indicator and issues one POST; when the POST completes the
\* indicator is removed, exactly one bot message is appended (the reply, or
\* the fixed fallback text on failure) and isLoading is false again; no send
\* starts while isLoading is true and no POST is issued again.
C18_WidgetSend ==
    /\ [][/\ sendMessage =>
               /\ Trim(widgetInput) # "" /\ ~widgetIsLoading
               /\ widgetMessages' = Append(widgetMessages,
                                           [content |-> Trim(widgetInput), role |-> "user"])
               /\ typingEls' = 1
               /\ widgetPosts' = widgetPosts + 1
          /\ WidgetSendDone =>
               /\ typingEls' = 0
               /\ Len(widgetMessages') = Len(widgetMessages) + 1
               /\ SubSeq(widgetMessages', 1, Len(widgetMessages)) = widgetMessages
               /\ widgetMessages'[Len(widgetMessages')].role = "bot"
               /\ ~widgetIsLoading'
               /\ widgetPosts' = widgetPosts - 1
          /\ \A cid \in ConvIds, reply \in Replies :
               widgetSendResolves(cid, reply) =>
                   widgetMessages'[Len(widgetMessages')].content = reply
          /\ widgetSendFails => widgetMessages'[Len(widgetMessages')].content = Fallback
          /\ widgetPosts' > widgetPosts => (sendMessage /\ ~widgetIsLoading)
          /\ widgetMessages' # widgetMessages =>
               (sendMessage \/ WidgetSendDone \/ widgetInit = "fetching")]_vars
    /\ [](/\ widgetPosts \in {0, 1}
          /\ widgetIsLoading <=> widgetPosts = 1
          /\ typingEls = widgetPosts)

\* one send has failed and a later one has been answered
C18_Witness ==
    /\ ~widgetIsLoading /\ typingEls = 0 /\ widgetPosts = 0
    /\ Len(widgetMessages) = 5
    /\ widgetMessages[2].role = "user"
    /\ widgetMessages[3] = [content |-> Fallback, role |-> "bot"]
    /\ widgetMessages[4].role = "user"
    /\ widgetMessages[5] = [content |-> "r1", role |-> "bot"]

\* C19: without speech recognition in the browser the overlay shows its error,
\* no recognizer of the overlay or of the page exists or is started, nothing
\* reaches the voice send, the page's microphone button changes nothing, and
\* the typed path accepts a submission whenever the overlay is closed.
C19_NoRecognitionDegrades ==
    /\ [](~hasRecognition =>
             /\ showVoiceSupport => vsError = ErrUnsupported
             /\ recCur = NoRec /\ oldRecs = EmptyBag
             /\ sends = EmptyBag /\ Count("user", "voice") = 0
             /\ pageRec = "none" /\ ~isRecording
             /\ ~showVoiceSupport => ENABLED handleSend)
    /\ [][(~hasRecognition /\ toggleRecording) => UNCHANGED vars]_vars

\* a call without recognition: the greeting was spoken and ended
C19_Witness ==
    /\ ~hasRecognition /\ showVoiceSupport /\ isCallActive
    /\ voiceState = LISTENING /\ utterActive = NoUtter
    /\ vsError = ErrUnsupported

\* C20: the mute-output button's synthesis.cancel() leaves voiceState and
\* isCallActive as they are, and so does the terminal event (end or error) of
\* the utterance it removed.
C20_MuteOutputNoTransition ==
    [][/\ muteOutput => UNCHANGED <<voiceState, isCallActive>>
       /\ \A u \in BagToSet(utterCancelled) :
             (u.muted /\ (utteranceOnEnd(u, "cancelled") \/ utteranceOnError(u, "cancelled")))
                => UNCHANGED <<voiceState, isCallActive>>]_vars

\* C21: endCall can be called in every voiceState of an active call; it leaves
\* isCallActive false and voiceState 'idle', no recognizer running, no utterance
\* in the synthesis queue and the overlay closed; after it, nothing (a repeated
\* call included) changes isCallActive or voiceState until the overlay is
\* opened again.
C21_EndCallFromAnyState ==
    /\ [][endCall =>
            /\ ~isCallActive' /\ voiceState' = IDLE /\ ~showVoiceSupport'
            /\ recCur'.st # "running"
            /\ utterActive' = NoUtter
            /\ utterActive # NoUtter =>
                  BagCardinality(utterCancelled') = BagCardinality(utterCancelled) + 1]_vars
    /\ []((showVoiceSupport /\ isCallActive
             /\ (utterActive = NoUtter \/ BagCardinality(utterCancelled) < MaxPending))
          => ENABLED endCall)
    /\ [](~showVoiceSupport => (~isCallActive /\ voiceState = IDLE))
    /\ [][(~showVoiceSupport /\ ~showVoiceSupport') => UNCHANGED <<isCallActive, voiceState>>]_vars

\* endCall has ended a call while a reply was being spoken
C21_Witness ==
    /\ ~showVoiceSupport /\ ~isCallActive /\ voiceState = IDLE
    /\ \E u \in BagToSet(utterCancelled) : u.ended /\ ~u.greeting

\* a step of recognition.onend, of the current or of a stopped recognizer
RecEndStep == recognitionOnEnd \/ \E k \in BagToSet(oldRecs) : staleOnEnd(k)

\* C22: toggleMute in 'listening' stops recognition and moves to 'idle' with
\* the call still active, and the recognizer's end does not start recognition
\* while voiceState is 'idle'; toggleMute in 'idle' starts recognition and
\* moves to 'listening'; in 'processing' and 'speaking' it changes nothing.
C22_ToggleMute ==
    [][/\ toggleMute =>
            CASE voiceState = LISTENING ->
                     voiceState' = IDLE /\ isCallActive' /\ recCur'.st # "running"
              [] voiceState = IDLE ->
                     hasRecognition => (voiceState' = LISTENING /\ recCur'.st = "running")
              [] OTHER -> UNCHANGED <<voiceState, isCallActive, recCur>>
       /\ (voiceState = IDLE /\ RecEndStep) => ~RecStarted]_vars

\* C23: when a recognition stream ends while the call is active and voiceState
\* is 'listening', recognition runs again after the step; when it ends after
\* the call has ended or in another voiceState, recognition is not started.
C23_RestartOnlyWhileListening ==
    [][RecEndStep =>
          IF isCallActive /\ voiceState = LISTENING
          THEN recCur'.st = "running"
          ELSE ~RecStarted]_vars

\* C24: setLoading changes only isLoading, setError and clearError only error;
\* an error that is set keeps its value in every step that is not setError,
\* clearError or clearChat; clearChat leaves isLoading as it is.
C24_IndependentFlags ==
    [][/\ \A b \in BOOLEAN :
             setLoading(b) => (isLoading' = b
                               /\ UNCHANGED <<error, messages, conversationId, sessionVars>>)
       /\ \A err \in StoreErrors :
             setError(err) => (error' = err
                               /\ UNCHANGED <<isLoading, messages, conversationId, sessionVars>>)
       /\ clearError => (error' = Null
                         /\ UNCHANGED <<isLoading, messages, conversationId, sessionVars>>)
       /\ (error # Null /\ error' # error) =>
             ((\E err \in StoreErrors : setError(err)) \/ clearError \/ clearChat)
       /\ (error # Null /\ error' = Null) => (setError(Null) \/ clearError \/ clearChat)
       /\ clearChat => isLoading' = isLoading]_vars

\* an error is set while the store is loading and holds a session, a
\* conversation and messages
C24_Witness ==
    /\ error = "e1" /\ isLoading
    /\ sessionId # Null /\ conversationId # Null /\ Len(messages) = 2

\* a step in which speakResponse runs: the greeting, or a voice reply
SpeakResponseStep ==
    \/ greetingTimer
    \/ /\ sends' # sends
       /\ \E s \in BagToSet(sends), cid \in ConvIds : voiceSendResolves(s, cid, "r1", Null)

\* the terminal event of the utterance in the synthesis queue
ActiveUtteranceDone ==
    /\ utterActive # NoUtter
    /\ utteranceOnEnd(utterActive, "active") \/ utteranceOnError(utterActive, "active")

\* C25: the utterance speakResponse starts is in the synthesis queue after
\* the step, the recognizer startListening starts (here: by toggleMute in
\* 'idle') runs after the step, and an utterance of the component leaves the
\* queue only by its own terminal event, a later speakResponse, the
\* mute-output button, endCall or the unmount.
C25_CleanupSparesNewWork ==
    [][/\ SpeakResponseStep => utterActive'.owner = "voice"
       /\ (toggleMute /\ voiceState = IDLE /\ CanStart(recCur)) => recCur'.st = "running"
       /\ (utterActive.owner = "voice" /\ utterActive' = NoUtter) =>
             (ActiveUtteranceDone \/ muteOutput \/ endCall \/ CloseVoiceSupport)]_vars

\* a step of recognition.onresult with a final transcript
FinalResultStep == recognitionOnResult \/ \E k \in BagToSet(oldRecs) : staleOnResult(k)

\* C26: at most one onSendMessage call is in flight, and a final transcript
\* that arrives while voiceState is 'processing' or 'speaking' starts no send.
C26_OneSendInFlight ==
    /\ [](BagCardinality(sends) <= 1)
    /\ [][(voiceState \in {PROCESSING, SPEAKING} /\ FinalResultStep) => sends' = sends]_vars

\* C27: the call-duration interval is scheduled exactly while a call is
\* active, each tick adds one to callDuration, and callDuration is 0 whenever
\* no call is active.
C27_CallTimerWhileActive ==
    /\ [](callTimer <=> isCallActive)
    /\ [](~isCallActive => callDuration = 0)
    /\ [][callTimerTick => callDuration' = callDuration + 1]_vars

\* C28: isAuthenticated is true only if the store holds a token and a user
\* and localStorage 'token' holds that token; a failed login or register
\* leaves user, token and isAuthenticated as they are, sets error and leaves
\* isLoading false.
C28_AuthConsistent ==
    /\ [](isAuthenticated => (token # Null /\ user # Null /\ lsToken = token))
    /\ [][\A c \in BagToSet(authCalls), status \in Failures :
             authRejects(c, status) =>
                 /\ UNCHANGED <<user, token, isAuthenticated>>
                 /\ authError' # Null /\ ~authIsLoading']_vars

\* C29: a send that fails removes exactly the user message it appended, and
\* the completion of a send issued in an earlier conversation leaves the log of
\* the current conversation as it is.
C29_SendAffectsOwnConversation ==
    [][\A s \in BagToSet(testSends) :
          /\ testSendRejects(s) =>
                /\ testMessages # <<>>
                /\ testMessages[Len(testMessages)] = TestMessage("user", "hi", s.conv)
                /\ testMessages' = DropLast(testMessages)
          /\ ((testSendResolves(s) \/ testSendRejects(s)) /\ s.conv # testConv) =>
                testMessages' = testMessages]_vars

\* C30: from every path and every authentication state the router reaches a
\* rendered page; an admin page is rendered only when authenticated with role
\* admin, a support page only when authenticated with role admin or support.
C30_RoutesSettle ==
    /\ \A path \in Paths : (location = path) ~> Settled
    /\ [](App(location) = Page("AdminLayout") => (isAuthenticated /\ Role = "admin"))
    /\ [](App(location) = Page("SupportLayout") =>
            (isAuthenticated /\ Role \in {"admin", "support"}))
    /\ [][redirect => (location' \in Paths /\ location' # location)]_vars

C30_Witness ==
    /\ location \in SupportPaths /\ Settled
    /\ isAuthenticated /\ Role = "support"

====
